---- MODULE Spec2Model ----
(***************************************************************************)
(* Model of tro's object resolution (src/find.rs, src/main.rs) and of the  *)
(* edit flow of its show/close/create commands (src/main.rs).              *)
(*                                                                         *)
(* Strings are sequences of one-character strings.  Option<T> is a         *)
(* sequence of length 0 (None) or 1 (Some).                                *)
(***************************************************************************)
EXTENDS Integers, Sequences, FiniteSets, TLC

VARIABLES
    pc,           \* position of the run being modelled
    objects,      \* get_object_by_name: the objects argument
    name,         \* get_object_by_name: the pattern argument
    ignore_case,  \* get_object_by_name: the ignore_case argument
    found,        \* outcome of find.rs get_object_by_name
    main_found,   \* outcome of main.rs get_object_by_name
    remote,       \* what the remote service holds
    params,       \* board/list/card patterns and ignore_case of one call
    result,       \* outcome of find.rs get_trello_object
    main_result,  \* outcome of main.rs get_trello_object
    command,      \* the subcommand of this run and its --new flag
    file,         \* contents of the temporary file handed to the editor
    log           \* the calls this run made to the remote service, in order

vars == <<pc, objects, name, ignore_case, found, main_found, remote, params,
          result, main_result, command, file, log>>

----------------------------------------------------------------------------
(* Bounds *)

MaxObjects == 3
MaxBoards == 2
MaxLists == 2
MaxCards == 2
RunMaxBoards == 1
RunMaxLists == 1
RunMaxCards == 2

----------------------------------------------------------------------------
(* Option and string helpers *)

None == <<>>

Some(x) == <<x>>

IsSome(o) == Len(o) = 1

NL == "\n"

Whitespace == {" ", NL, "\t"}

\* str::trim_end: drop trailing whitespace
RECURSIVE trim_end(_)
trim_end(s) ==
    IF s = <<>> THEN <<>>
    ELSE IF s[Len(s)] \in Whitespace THEN trim_end(SubSeq(s, 1, Len(s) - 1))
    ELSE s

\* char lower-casing used by case-insensitive matching
Lower(c) ==
    CASE c = "A" -> "a"
      [] c = "B" -> "b"
      [] OTHER -> c

----------------------------------------------------------------------------
(* The regular expressions the patterns are compiled to: a sequence of     *)
(* literal characters, "." (any character), "^" and "$" (anchors).  An     *)
(* unclosed group "(" does not compile.                                    *)

Compiles(pattern) == \A i \in 1..Len(pattern) : pattern[i] # "("

CharMatches(p, c, ic) ==
    \/ p = "." /\ c # NL
    \/ p \notin {".", "^", "$"} /\ (IF ic THEN Lower(p) = Lower(c) ELSE p = c)

\* the pattern from element i on matches s from position j on
RECURSIVE MatchAt(_, _, _, _, _)
MatchAt(pattern, s, ic, i, j) ==
    IF i > Len(pattern) THEN TRUE
    ELSE IF pattern[i] = "^" THEN j = 1 /\ MatchAt(pattern, s, ic, i + 1, j)
    ELSE IF pattern[i] = "$" THEN j = Len(s) + 1 /\ MatchAt(pattern, s, ic, i + 1, j)
    ELSE /\ j <= Len(s)
         /\ CharMatches(pattern[i], s[j], ic)
         /\ MatchAt(pattern, s, ic, i + 1, j + 1)

\* Regex::is_match: the pattern matches somewhere in s (unanchored search)
IsMatch(pattern, s, ic) == \E j \in 1..(Len(s) + 1) : MatchAt(pattern, s, ic, 1, j)

----------------------------------------------------------------------------
(* find.rs: FindError and get_object_by_name *)

NoError == [kind |-> "None", type |-> "", pattern |-> <<>>, found |-> <<>>]

FindError(kind, type, pattern, names) ==
    [kind |-> kind, type |-> type, pattern |-> pattern, found |-> names]

Ok(x) == [ok |-> TRUE, value |-> Some(x), err |-> NoError]

Err(e) == [ok |-> FALSE, value |-> None, err |-> e]

Matching(objs, pattern, ic) == SelectSeq(objs, LAMBDA o : IsMatch(pattern, o.name, ic))

NamesOf(objs) == [i \in 1..Len(objs) |-> objs[i].name]

\* get_object_by_name breaking a tie by taking the first match
get_object_by_name_first(objs, type, pattern, ic) ==
    IF ~Compiles(pattern) THEN Err(FindError("Regex", "", pattern, <<>>))
    ELSE LET matched == Matching(objs, pattern, ic)
         IN  IF Len(matched) >= 1 THEN Ok(matched[1])
             ELSE Err(FindError("NotFound", type, pattern, <<>>))

get_object_by_name(objs, type, pattern, ic) ==
    IF ~Compiles(pattern) THEN Err(FindError("Regex", "", pattern, <<>>))
    ELSE LET matched == Matching(objs, pattern, ic)
         IN  IF Len(matched) = 1 THEN Ok(matched[Len(matched)])
             ELSE IF Len(matched) > 1
                  THEN Err(FindError("Multiple", type, pattern, NamesOf(matched)))
                  ELSE Err(FindError("NotFound", type, pattern, <<>>))

----------------------------------------------------------------------------
(* main.rs: get_object_by_name.  build().expect() panics on a pattern that *)
(* does not compile; the two failures are SimpleErrors that carry only a   *)
(* message with the pattern in it.                                         *)

SimpleError(msg, pattern) == [kind |-> "SimpleError", msg |-> msg, pattern |-> pattern]

NoSimpleError == SimpleError("", <<>>)

MainOk(x) == [ok |-> TRUE, panicked |-> FALSE, value |-> Some(x), err |-> NoSimpleError]

MainErr(e) == [ok |-> FALSE, panicked |-> FALSE, value |-> None, err |-> e]

MainPanic(msg) == [ok |-> FALSE, panicked |-> TRUE, value |-> None, err |-> SimpleError(msg, <<>>)]

main_get_object_by_name(objs, pattern, ic) ==
    IF ~Compiles(pattern) THEN MainPanic("Invalid Regex")
    ELSE LET matched == Matching(objs, pattern, ic)
         IN  IF Len(matched) = 1 THEN MainOk(matched[Len(matched)])
             ELSE IF Len(matched) > 1
                  THEN MainErr(SimpleError("More than one object found", pattern))
                  ELSE MainErr(SimpleError("Object not found", pattern))

----------------------------------------------------------------------------
(* The remote service: three tables.  A board, list or card is identified  *)
(* by its position in its table.                                           *)

SeqsUpTo(S, n) == UNION {[1..k -> S] : k \in 0..n}

Remotes(maxB, maxL, maxC, bnames, lnames, ckinds) ==
    UNION { UNION { { [boards |-> b, lists |-> l, cards |-> c] :
                        c \in SeqsUpTo([list : 1..Len(l), kind : ckinds], maxC) } :
                    l \in SeqsUpTo([board : 1..Len(b), name : lnames], maxL) } :
            b \in SeqsUpTo([name : bnames], maxB) }

\* the positions 1..n that are in kept, in increasing order
Positions(n, kept) ==
    LET F[k \in 0..n] ==
            IF k = 0 THEN <<>>
            ELSE IF k \in kept THEN Append(F[k - 1], k) ELSE F[k - 1]
    IN  F[n]

Card(id, nm, desc, labels) ==
    [id |-> id, name |-> nm, desc |-> desc, labels |-> labels, closed |-> FALSE]

\* List::get_all_cards
GetAllCards(r, list_id) ==
    LET ks == Positions(Len(r.cards), {k \in 1..Len(r.cards) : r.cards[k].list = list_id})
    IN  [i \in 1..Len(ks) |->
            Card(ks[i], r.cards[ks[i]].kind.name, r.cards[ks[i]].kind.desc,
                 r.cards[ks[i]].kind.labels)]

\* Board::get_all_lists
GetAllLists(r, board_id) ==
    LET ks == Positions(Len(r.lists), {k \in 1..Len(r.lists) : r.lists[k].board = board_id})
    IN  [i \in 1..Len(ks) |->
            [id |-> ks[i], name |-> r.lists[ks[i]].name, closed |-> FALSE,
             cards |-> None]]

\* Board::get_all
GetAllBoards(r) ==
    [k \in 1..Len(r.boards) |->
        [id |-> k, name |-> r.boards[k].name, closed |-> FALSE, lists |-> None]]

\* Board::retrieve_nested: the board with its lists and their cards loaded
retrieve_nested(r, board) ==
    LET ls == GetAllLists(r, board.id)
    IN  [board EXCEPT !.lists =
            Some([k \in 1..Len(ls) |->
                    [ls[k] EXCEPT !.cards = Some(GetAllCards(r, ls[k].id))]])]

----------------------------------------------------------------------------
(* find.rs: TrelloParams, TrelloResult and get_trello_object *)

TrelloParams(bn, ln, cn, ic) ==
    [board_name |-> bn, list_name |-> ln, card_name |-> cn, ignore_case |-> ic]

TrelloResult(b, l, c) ==
    [ok |-> TRUE, board |-> b, list |-> l, card |-> c, err |-> NoError]

TrelloError(e) == [ok |-> FALSE, board |-> None, list |-> None, card |-> None, err |-> e]

WildcardName == <<"-">>

\* lists.into_iter().map(|l| l.cards.unwrap()).flatten()
RECURSIVE Flatten(_)
Flatten(lists) ==
    IF lists = <<>> THEN <<>>
    ELSE Head(lists).cards[1] \o Flatten(Tail(lists))

get_trello_object(r, p) ==
    IF ~IsSome(p.board_name) THEN TrelloResult(None, None, None)
    ELSE
    LET b == get_object_by_name(GetAllBoards(r), "Board", p.board_name[1], p.ignore_case)
    IN  IF ~b.ok THEN TrelloError(b.err)
        ELSE
        LET board == retrieve_nested(r, b.value[1])
        IN  IF p.list_name = Some(WildcardName)
            THEN IF IsSome(p.card_name)
                 THEN LET cards == Flatten(board.lists[1])
                          c == get_object_by_name(cards, "Card", p.card_name[1],
                                                  p.ignore_case)
                      IN  IF ~c.ok THEN TrelloError(c.err)
                          ELSE TrelloResult(Some(board), None, c.value)
                 ELSE TrelloError(FindError("WildCard", "", <<>>, <<>>))
            ELSE IF IsSome(p.list_name)
            THEN LET l == get_object_by_name(board.lists[1], "List", p.list_name[1],
                                             p.ignore_case)
                 IN  IF ~l.ok THEN TrelloError(l.err)
                     ELSE IF IsSome(p.card_name)
                     THEN LET c == get_object_by_name(l.value[1].cards[1], "Card",
                                                      p.card_name[1], p.ignore_case)
                          IN  IF ~c.ok THEN TrelloError(c.err)
                              ELSE TrelloResult(Some(board), l.value, c.value)
                     ELSE TrelloResult(Some(board), l.value, None)
            ELSE TrelloResult(Some(board), None, None)

----------------------------------------------------------------------------
(* main.rs: TrelloResult and get_trello_object *)

MainResult(b, l, c) ==
    [ok |-> TRUE, panicked |-> FALSE, board |-> b, list |-> l, card |-> c,
     err |-> NoSimpleError]

MainFailure(o) ==
    [ok |-> FALSE, panicked |-> o.panicked, board |-> None, list |-> None,
     card |-> None, err |-> o.err]

main_get_trello_object(r, p) ==
    IF ~IsSome(p.board_name) THEN MainResult(None, None, None)
    ELSE
    LET b == main_get_object_by_name(GetAllBoards(r), p.board_name[1], p.ignore_case)
    IN  IF ~b.ok THEN MainFailure(b)
        ELSE IF IsSome(p.list_name)
        THEN LET l == main_get_object_by_name(GetAllLists(r, b.value[1].id),
                                              p.list_name[1], p.ignore_case)
             IN  IF ~l.ok THEN MainFailure(l)
                 ELSE IF IsSome(p.card_name)
                 THEN LET c == main_get_object_by_name(GetAllCards(r, l.value[1].id),
                                                       p.card_name[1], p.ignore_case)
                      IN  IF ~c.ok THEN MainFailure(c)
                          ELSE MainResult(b.value, l.value, c.value)
                 ELSE MainResult(b.value, l.value, None)
        ELSE MainResult(b.value, None, None)

----------------------------------------------------------------------------
(* Specification SpecMatch: one call of each get_object_by_name on the     *)
(* same arguments.                                                         *)

Unset == <<>>

MatchNames == {<<"a">>, <<"A", "b">>, <<"b", "-">>}

MatchPatterns ==
    {<<"a">>, <<"^", "a">>, <<"b", "$">>, <<".", "-">>, <<"-">>, <<>>, <<"(">>,
     <<"a", "(">>, <<"c">>}

ObjectSeqs ==
    { [i \in 1..Len(ns) |-> Card(i, ns[i], <<>>, <<>>)] : ns \in SeqsUpTo(MatchNames, MaxObjects) }

NoParams == TrelloParams(None, None, None, FALSE)

NoRemote == [boards |-> <<>>, lists |-> <<>>, cards |-> <<>>]

NoCommand == [cmd |-> "", new |-> FALSE]

InitMatch ==
    /\ pc = "find"
    /\ objects \in ObjectSeqs
    /\ name \in MatchPatterns
    /\ ignore_case \in BOOLEAN
    /\ found = Unset
    /\ main_found = Unset
    /\ remote = NoRemote
    /\ params = NoParams
    /\ result = Unset
    /\ main_result = Unset
    /\ command = NoCommand
    /\ file = <<>>
    /\ log = <<>>

\* find.rs get_object_by_name is called
CallFind ==
    /\ pc = "find"
    /\ found' = get_object_by_name(objects, "Card", name, ignore_case)
    /\ pc' = "main"
    /\ UNCHANGED <<objects, name, ignore_case, main_found, remote, params, result,
                   main_result, command, file, log>>

\* main.rs get_object_by_name is called
CallMain ==
    /\ pc = "main"
    /\ main_found' = main_get_object_by_name(objects, name, ignore_case)
    /\ pc' = "matched"
    /\ UNCHANGED <<objects, name, ignore_case, found, remote, params, result,
                   main_result, command, file, log>>

NextMatch == CallFind \/ CallMain

SpecMatch == InitMatch /\ [][NextMatch]_vars

----------------------------------------------------------------------------
(* Specification SpecResolve: one call of each get_trello_object on the    *)
(* same remote data and the same parameters.                               *)

BoardNames == {<<"a">>, <<"A">>}

ListNames == {<<"a">>, <<"A", "-">>}

CardKinds == { [name |-> n, desc |-> <<>>, labels |-> <<>>] : n \in {<<"a">>, <<"A">>} }

BoardPatterns == {None, Some(<<"a">>), Some(<<"(">>)}

ListPatterns == {None, Some(WildcardName), Some(<<"a">>)}

CardPatterns == {None, Some(<<"a">>), Some(<<"(">>)}

InitResolve ==
    /\ pc = "resolve_find"
    /\ remote \in Remotes(MaxBoards, MaxLists, MaxCards, BoardNames, ListNames, CardKinds)
    /\ \E bn \in BoardPatterns, ln \in ListPatterns, cn \in CardPatterns, ic \in BOOLEAN :
          params = TrelloParams(bn, ln, cn, ic)
    /\ objects = <<>>
    /\ name = <<>>
    /\ ignore_case = FALSE
    /\ found = Unset
    /\ main_found = Unset
    /\ result = Unset
    /\ main_result = Unset
    /\ command = NoCommand
    /\ file = <<>>
    /\ log = <<>>

\* find.rs get_trello_object is called
ResolveFind ==
    /\ pc = "resolve_find"
    /\ result' = get_trello_object(remote, params)
    /\ pc' = "resolve_main"
    /\ UNCHANGED <<objects, name, ignore_case, found, main_found, remote, params,
                   main_result, command, file, log>>

\* main.rs get_trello_object is called
ResolveMain ==
    /\ pc = "resolve_main"
    /\ main_result' = main_get_trello_object(remote, params)
    /\ pc' = "resolved"
    /\ UNCHANGED <<objects, name, ignore_case, found, main_found, remote, params,
                   result, command, file, log>>

NextResolve == ResolveFind \/ ResolveMain

SpecResolve == InitResolve /\ [][NextResolve]_vars

----------------------------------------------------------------------------
(* Properties of get_object_by_name, under SpecMatch *)

\* positions of the objects whose name the pattern matches
MatchedAt(objs, pattern, ic) == {i \in 1..Len(objs) : IsMatch(pattern, objs[i].name, ic)}

FindCalled == pc \in {"main", "matched"}

MainCalled == pc = "matched"

\* C1: for a pattern that compiles, each get_object_by_name succeeds iff exactly
\* one object's name matches, and then returns that very object; with no match
\* it fails with NotFound (main.rs: the "Object not found" error), not Multiple.
C1_ExactlyOneMatch ==
    LET at == MatchedAt(objects, name, ignore_case)
    IN  Compiles(name) =>
          /\ FindCalled =>
                /\ found.ok <=> Cardinality(at) = 1
                /\ found.ok => \A i \in at : found.value = Some(objects[i])
                /\ at = {} => found.err.kind = "NotFound"
          /\ MainCalled =>
                /\ main_found.ok <=> Cardinality(at) = 1
                /\ main_found.ok => \A i \in at : main_found.value = Some(objects[i])
                /\ at = {} => /\ ~main_found.panicked
                              /\ main_found.err.msg = "Object not found"

\* the single match is not the first object of three, and both calls returned it
C1_Witness ==
    /\ MainCalled
    /\ Len(objects) = 3
    /\ MatchedAt(objects, name, ignore_case) = {2}
    /\ found.ok /\ found.value = Some(objects[2])
    /\ main_found.ok /\ main_found.value = Some(objects[2])

\* the candidate names an error carries
CandidateNames(e) == IF e.kind = "Multiple" THEN e.found ELSE <<>>

\* C2: with two or more matching names each get_object_by_name fails with the
\* Multiple error, returns no object, and the error carries exactly the matched
\* names, once per matching object, in input order.
C2_AmbiguousCarriesNames ==
    LET at == MatchedAt(objects, name, ignore_case)
        ks == Positions(Len(objects), at)
        expected == [i \in 1..Len(ks) |-> objects[ks[i]].name]
    IN  (Compiles(name) /\ Cardinality(at) >= 2) =>
          /\ FindCalled =>
                /\ ~found.ok /\ found.value = None
                /\ found.err.kind = "Multiple"
                /\ CandidateNames(found.err) = expected
          /\ MainCalled =>
                /\ ~main_found.ok /\ main_found.value = None
                /\ main_found.err.msg = "More than one object found"
                /\ CandidateNames(main_found.err) = expected

\* C3: a pattern that does not compile makes each get_object_by_name return an
\* error value to its caller (find.rs: Regex) instead of crashing, whatever the
\* objects are.
C3_InvalidPatternIsAnError ==
    ~Compiles(name) =>
          /\ FindCalled => (~found.ok /\ found.value = None /\ found.err.kind = "Regex")
          /\ MainCalled => (~main_found.ok /\ main_found.value = None
                            /\ ~main_found.panicked)

----------------------------------------------------------------------------
(* Properties of get_trello_object, under SpecResolve *)

FindResolved == pc \in {"resolve_main", "resolved"}

MainResolved == pc = "resolved"

\* the class of an outcome of find.rs get_trello_object
FindClass(res) == IF res.ok THEN "Ok" ELSE res.err.kind

\* the class of an outcome of main.rs get_trello_object
MainClass(res) ==
    IF res.ok THEN "Ok"
    ELSE IF res.panicked THEN "Panic"
    ELSE IF res.err.msg = "More than one object found" THEN "Multiple"
    ELSE IF res.err.msg = "Object not found" THEN "NotFound"
    ELSE "Other"

\* ids of the boards the board pattern matches
BoardsMatched ==
    {b \in 1..Len(remote.boards) :
        IsMatch(params.board_name[1], remote.boards[b].name, params.ignore_case)}

\* the board pattern is present, compiles and selects exactly one board
BoardSelected ==
    /\ IsSome(params.board_name)
    /\ Compiles(params.board_name[1])
    /\ Cardinality(BoardsMatched) = 1

SelectedBoard == CHOOSE b \in BoardsMatched : TRUE

Wildcard == params.list_name = Some(WildcardName)

\* ids of the cards, in any list of board b, that the card pattern matches
CardsMatchedOnBoard(b) ==
    {c \in 1..Len(remote.cards) :
        /\ remote.lists[remote.cards[c].list].board = b
        /\ IsMatch(params.card_name[1], remote.cards[c].kind.name, params.ignore_case)}

IdOf(o) == IF IsSome(o) THEN o[1].id ELSE 0

\* C4: list pattern "-" without a card pattern: once the board is selected,
\* each get_trello_object fails with the WildCard error and returns no result.
C4_WildcardRequiresCard ==
    (Wildcard /\ ~IsSome(params.card_name) /\ BoardSelected) =>
        /\ FindResolved => FindClass(result) = "WildCard"
        /\ MainResolved => MainClass(main_result) = "WildCard"

\* what C5 says of one outcome, given its class and its board, list and card
WildcardSearch(class, res) ==
    LET at == CardsMatchedOnBoard(SelectedBoard)
    IN  /\ Cardinality(at) = 1 =>
              /\ class = "Ok"
              /\ IdOf(res.board) = SelectedBoard
              /\ res.list = None
              /\ \A c \in at : IdOf(res.card) = c
        /\ Cardinality(at) >= 2 => class = "Multiple"
        /\ Cardinality(at) = 0 => class = "NotFound"

\* C5: list pattern "-" with a card pattern: once the board is selected the
\* card pattern is matched against all cards of all lists of that board; one
\* match gives board + card without list, several give Multiple, none NotFound.
C5_WildcardSearchesAllLists ==
    (Wildcard /\ IsSome(params.card_name) /\ BoardSelected
       /\ Compiles(params.card_name[1])) =>
        /\ FindResolved => WildcardSearch(FindClass(result), result)
        /\ MainResolved => WildcardSearch(MainClass(main_result), main_result)

\* what C6 says of one successful result
ResultShape(res) ==
    /\ IsSome(res.list) => IsSome(res.board)
    /\ IsSome(res.card) =>
          IF Wildcard THEN ~IsSome(res.list) /\ IsSome(res.board)
          ELSE IsSome(res.list)
    /\ IsSome(res.list) => remote.lists[IdOf(res.list)].board = IdOf(res.board)
    /\ IsSome(res.card) =>
          IF IsSome(res.list) THEN remote.cards[IdOf(res.card)].list = IdOf(res.list)
          ELSE remote.lists[remote.cards[IdOf(res.card)].list].board = IdOf(res.board)

\* C6: every successful result has list => board, card => list (on the
\* wildcard path: card with list absent and board present), the list is a list
\* of the board and the card a card of the list (wildcard: of the board).
C6_ResultInvariant ==
    /\ (FindResolved /\ result.ok) => ResultShape(result)
    /\ (MainResolved /\ main_result.ok) => ResultShape(main_result)

\* C7: on the same remote data and parameters the two get_trello_object agree:
\* the same class of outcome and, on success, the same board, list and card.
C7_ResolversAgree ==
    MainResolved =>
        /\ FindClass(result) = MainClass(main_result)
        /\ IdOf(result.board) = IdOf(main_result.board)
        /\ IdOf(result.list) = IdOf(main_result.list)
        /\ IdOf(result.card) = IdOf(main_result.card)

----------------------------------------------------------------------------
(* The card document: Card::render and Card::parse *)

CARD_DESCRIPTION_PLACEHOLDER ==
    <<"<", "E", "n", "t", "e", "r", " ", "D", "e", "s", "c", "r", "i", "p", "t", "i", "o", "n", " ", "H", "e", "r", "e", ">">>

CARD_NAME_PLACEHOLDER ==
    <<"<", "E", "n", "t", "e", "r", " ", "C", "a", "r", "d", " ", "N", "a", "m", "e", " ", "H", "e", "r", "e", ">">>

\* str::trim_start
RECURSIVE trim_start(_)
trim_start(s) ==
    IF s = <<>> THEN <<>>
    ELSE IF Head(s) \in Whitespace THEN trim_start(Tail(s))
    ELSE s

\* Card::render: the name line, a blank line, the description verbatim
Render(card) == card.name \o <<NL, NL>> \o card.desc

\* Card::parse: the first line is the name, what follows the first blank line
\* is the description; an empty document is malformed
Parse(text) ==
    IF text = <<>> THEN Err(FindError("MalformedDocument", "", <<>>, <<>>))
    ELSE LET nls == {i \in 1..Len(text) : text[i] = NL}
             eol == IF nls = {} THEN Len(text) + 1
                    ELSE CHOOSE i \in nls : \A j \in nls : i <= j
             seps == {i \in nls : i < Len(text) /\ text[i + 1] = NL}
             desc == IF seps = {} THEN <<>>
                     ELSE LET sep == CHOOSE i \in seps : \A j \in seps : i <= j
                          IN  SubSeq(text, sep + 2, Len(text))
         IN  Ok(Card(0, trim_end(trim_start(SubSeq(text, 1, eol - 1))), desc, <<>>))

----------------------------------------------------------------------------
(* main.rs: edit_card and the subcommands *)

Call(call, parent, arg) == [call |-> call, parent |-> parent, arg |-> arg]

\* edit_card up to the launch of the editor: writeln!(file, "{}", card.render())
edit_card_write(card) == Render(card) \o <<NL>>

\* edit_card after the editor has exited: parse the trimmed buffer, then take
\* id and labels from the original card
edit_card_read(card, buf) ==
    LET parsed == Parse(trim_end(buf))
    IN  IF ~parsed.ok THEN parsed
        ELSE Ok([parsed.value[1] EXCEPT !.id = card.id, !.labels = card.labels])

\* show_new_calls submitting the placeholder description as it is
show_new_calls_keep_placeholder(list_id, edited) ==
    IF edited.name # CARD_NAME_PLACEHOLDER
    THEN <<Call("Card::create", list_id, edited)>>
    ELSE <<>>

\* show_subcommand --new, after edit_card: the calls made for the edited card
show_new_calls(list_id, edited) ==
    LET card == IF edited.desc = CARD_DESCRIPTION_PLACEHOLDER
                THEN [edited EXCEPT !.desc = <<>>]
                ELSE edited
    IN  IF card.name # CARD_NAME_PLACEHOLDER
        THEN <<Call("Card::create", list_id, card)>>
        ELSE <<>>

\* show_subcommand on a card, after edit_card: upload only what changed
show_edit_calls(card, new_card) ==
    IF new_card # card THEN <<Call("Card::update", 0, new_card)>> ELSE <<>>

\* show_subcommand without a card: what is fetched to be printed
show_print_calls(res) ==
    IF IsSome(res.list) THEN <<>>
    ELSE IF IsSome(res.board) THEN <<Call("Board::retrieve_nested", 0, res.board[1])>>
    ELSE <<Call("Board::get_all", 0, <<>>)>>

\* close_calls closing the list of the card as well (a missing else)
close_calls_no_else(res) ==
    (IF IsSome(res.card)
     THEN <<Call("Card::update", 0, [res.card[1] EXCEPT !.closed = TRUE])>> ELSE <<>>)
    \o (IF IsSome(res.list)
        THEN <<Call("List::update", 0, [res.list[1] EXCEPT !.closed = TRUE])>>
        ELSE IF IsSome(res.board)
        THEN <<Call("Board::update", 0, [res.board[1] EXCEPT !.closed = TRUE])>>
        ELSE <<>>)

\* close_subcommand after the resolution: close the deepest object resolved
close_calls(res) ==
    IF IsSome(res.card) THEN <<Call("Card::update", 0, [res.card[1] EXCEPT !.closed = TRUE])>>
    ELSE IF IsSome(res.list)
    THEN <<Call("List::update", 0, [res.list[1] EXCEPT !.closed = TRUE])>>
    ELSE IF IsSome(res.board)
    THEN <<Call("Board::update", 0, [res.board[1] EXCEPT !.closed = TRUE])>>
    ELSE <<>>

\* create_subcommand after the resolution and the line read from stdin
create_calls(res, input) ==
    IF IsSome(res.list)
    THEN <<Call("Card::create", res.list[1].id, Card(0, trim_end(input), <<>>, <<>>))>>
    ELSE IF IsSome(res.board)
    THEN <<Call("List::create", res.board[1].id, trim_end(input))>>
    ELSE <<Call("Board::create", 0, trim_end(input))>>

\* the card show_subcommand hands to edit_card
EditedCard ==
    IF command.new THEN Card(0, CARD_NAME_PLACEHOLDER, CARD_DESCRIPTION_PLACEHOLDER, <<>>)
    ELSE main_result.card[1]

----------------------------------------------------------------------------
(* Specification SpecRun: one run of one subcommand of main.rs *)

RunBoardNames == {<<"a">>, <<"b">>}

RunListNames == {<<"a">>, <<"b">>}

RunCardKinds ==
    { [name |-> <<"a">>, desc |-> <<>>, labels |-> <<>>],
      [name |-> <<"a">>, desc |-> <<"x", NL, "y">>, labels |-> <<"red">>],
      [name |-> <<"A">>, desc |-> <<"x", NL>>, labels |-> <<>>] }

RunBoardPatterns == {None, Some(<<"a">>), Some(<<"(">>)}

RunListPatterns == {None, Some(<<"a">>)}

RunCardPatterns == {None, Some(<<"a">>)}

Commands ==
    {[cmd |-> "show", new |-> FALSE], [cmd |-> "show", new |-> TRUE],
     [cmd |-> "close", new |-> FALSE], [cmd |-> "create", new |-> FALSE]}

\* what clap accepts: positional arguments, close requires a board, --new
\* requires a list and conflicts with a card, create takes no card
Accepted(c, p) ==
    /\ IsSome(p.list_name) => IsSome(p.board_name)
    /\ IsSome(p.card_name) => IsSome(p.list_name)
    /\ c.cmd = "close" => IsSome(p.board_name)
    /\ c.cmd = "create" => ~IsSome(p.card_name)
    /\ c.new => (IsSome(p.list_name) /\ ~IsSome(p.card_name))

\* what the editor may leave in the file, besides what it was given
EditorTexts ==
    { <<>>,
      <<"b">>,
      <<" ", "b", " ", NL>>,
      <<"b", NL, NL, "z", NL, NL>>,
      CARD_NAME_PLACEHOLDER \o <<NL, NL, "z", NL>>,
      <<"b", NL, NL>> \o CARD_DESCRIPTION_PLACEHOLDER \o <<NL>> }

\* the lines read from stdin by create_subcommand
StdinLines == { <<"n", NL>>, <<NL>> }

InitRun ==
    /\ pc = "start"
    /\ remote \in Remotes(RunMaxBoards, RunMaxLists, RunMaxCards, RunBoardNames,
                          RunListNames, RunCardKinds)
    /\ command \in Commands
    /\ \E bn \in RunBoardPatterns, ln \in RunListPatterns, cn \in RunCardPatterns,
          ic \in BOOLEAN : params = TrelloParams(bn, ln, cn, ic)
    /\ Accepted(command, params)
    /\ objects = <<>>
    /\ name = <<>>
    /\ ignore_case = FALSE
    /\ found = Unset
    /\ main_found = Unset
    /\ result = Unset
    /\ main_result = Unset
    /\ file = <<>>
    /\ log = <<>>

\* every subcommand begins with get_trello_object(client, matches)?
Resolve ==
    /\ pc = "start"
    /\ main_result' = main_get_trello_object(remote, params)
    /\ log' = Append(log, Call("get_trello_object", 0, <<>>))
    /\ pc' = IF main_result'.ok THEN command.cmd ELSE "failed"
    /\ UNCHANGED <<objects, name, ignore_case, found, main_found, remote, params,
                   result, command, file>>

\* show_subcommand on a card or with --new: edit_card writes the document
ShowEdit ==
    /\ pc = "show"
    /\ command.new \/ IsSome(main_result.card)
    /\ file' = edit_card_write(EditedCard)
    /\ pc' = "editor"
    /\ UNCHANGED <<objects, name, ignore_case, found, main_found, remote, params,
                   result, main_result, command, log>>

\* show_subcommand without a card: print the list, the board or the boards
ShowPrint ==
    /\ pc = "show"
    /\ ~command.new /\ ~IsSome(main_result.card)
    /\ log' = log \o show_print_calls(main_result)
    /\ pc' = "done"
    /\ UNCHANGED <<objects, name, ignore_case, found, main_found, remote, params,
                   result, main_result, command, file>>

\* Command::new(editor).status()? fails: the editor could not be launched
EditorFails ==
    /\ pc = "editor"
    /\ pc' = "failed"
    /\ UNCHANGED <<objects, name, ignore_case, found, main_found, remote, params,
                   result, main_result, command, file, log>>

\* the editor runs and exits, leaving some text in the file
EditorExits ==
    /\ pc = "editor"
    /\ file' \in {file} \cup EditorTexts
    /\ pc' = "edited"
    /\ UNCHANGED <<objects, name, ignore_case, found, main_found, remote, params,
                   result, main_result, command, log>>

\* the rest of edit_card and of show_subcommand
ShowFinish ==
    /\ pc = "edited"
    /\ LET new_card == edit_card_read(EditedCard, file)
       IN  IF ~new_card.ok
           THEN pc' = "failed" /\ log' = log
           ELSE /\ pc' = "done"
                /\ log' = log \o
                      (IF command.new
                       THEN show_new_calls(main_result.list[1].id, new_card.value[1])
                       ELSE show_edit_calls(EditedCard, new_card.value[1]))
    /\ UNCHANGED <<objects, name, ignore_case, found, main_found, remote, params,
                   result, main_result, command, file>>

\* the rest of close_subcommand
Close ==
    /\ pc = "close"
    /\ log' = log \o close_calls(main_result)
    /\ pc' = "done"
    /\ UNCHANGED <<objects, name, ignore_case, found, main_found, remote, params,
                   result, main_result, command, file>>

\* the rest of create_subcommand, stdin().read_line succeeding
Create ==
    /\ pc = "create"
    /\ \E input \in StdinLines : log' = log \o create_calls(main_result, input)
    /\ pc' = "done"
    /\ UNCHANGED <<objects, name, ignore_case, found, main_found, remote, params,
                   result, main_result, command, file>>

\* the rest of create_subcommand, stdin().read_line(&mut input)? failing
CreateReadFails ==
    /\ pc = "create"
    /\ pc' = "failed"
    /\ UNCHANGED <<objects, name, ignore_case, found, main_found, remote, params,
                   result, main_result, command, file, log>>

NextRun ==
    \/ Resolve
    \/ ShowEdit
    \/ ShowPrint
    \/ EditorFails
    \/ EditorExits
    \/ ShowFinish
    \/ Close
    \/ Create
    \/ CreateReadFails

SpecRun == InitRun /\ [][NextRun]_vars

----------------------------------------------------------------------------
(* Properties of the subcommands, under SpecRun *)

Mutating ==
    {"Card::create", "Card::update", "List::create", "List::update", "Board::create",
     "Board::update"}

\* positions in the log of the calls named in S
CallsAt(S) == {i \in 1..Len(log) : log[i].call \in S}

CallsNamed(S) == SelectSeq(log, LAMBDA e : e.call \in S)

\* C8: show on a resolved card: when the editor leaves the document exactly as
\* edit_card wrote it, the reconstructed card equals the original and
\* Card::update is never called.
C8_UnchangedDocumentNoUpdate ==
    (/\ pc = "done"
     /\ command.cmd = "show" /\ ~command.new
     /\ IsSome(main_result.card)
     /\ file = edit_card_write(main_result.card[1])) =>
        /\ edit_card_read(main_result.card[1], file) = Ok(main_result.card[1])
        /\ CallsAt({"Card::update"}) = {}

\* C9: show --new: Card::create is called iff the name read back differs from
\* the placeholder name; with the placeholder name nothing is created or
\* updated; a created card has the description read back, or the empty string
\* when that is the placeholder description.
C9_NewCardCreation ==
    (command.cmd = "show" /\ command.new /\ pc \in {"done", "failed"}) =>
        IF pc = "failed" THEN CallsAt(Mutating) = {}
        ELSE LET read == Parse(trim_end(file)).value[1]
                 creates == CallsNamed({"Card::create"})
             IN  /\ CallsAt(Mutating) = CallsAt({"Card::create"})
                 /\ Len(creates) <= 1
                 /\ Len(creates) = 1 <=> read.name # CARD_NAME_PLACEHOLDER
                 /\ Len(creates) = 1 =>
                       /\ creates[1].parent = main_result.list[1].id
                       /\ creates[1].arg.name = read.name
                       /\ creates[1].arg.desc =
                             IF read.desc = CARD_DESCRIPTION_PLACEHOLDER THEN <<>>
                             ELSE read.desc

\* a card was created from a document whose description is still the placeholder
C9_Witness ==
    /\ pc = "done" /\ command.cmd = "show" /\ command.new
    /\ Parse(trim_end(file)).value[1].desc = CARD_DESCRIPTION_PLACEHOLDER
    /\ Parse(trim_end(file)).value[1].name = <<"b">>
    /\ Len(CallsNamed({"Card::create"})) = 1
    /\ CallsNamed({"Card::create"})[1].arg.desc = <<>>

\* C10: a run makes exactly one hierarchy resolution and at most one mutating
\* call; the mutating call comes after a successful resolution; a run that
\* failed (resolution, editor launch, document parse, stdin) made none.
C10_OneResolutionAtMostOneMutation ==
    LET res == CallsAt({"get_trello_object"})
        muts == CallsAt(Mutating)
    IN  /\ Cardinality(res) = (IF pc = "start" THEN 0 ELSE 1)
        /\ Cardinality(muts) <= 1
        /\ \A m \in muts : main_result.ok /\ \E r \in res : r < m
        /\ pc = "failed" => muts = {}
        /\ muts # {} => pc = "done"

\* a show run that resolved a card, edited it and uploaded the change
C10_Witness ==
    /\ pc = "done" /\ command.cmd = "show" /\ ~command.new
    /\ Len(log) = 2
    /\ log[1].call = "get_trello_object"
    /\ log[2].call = "Card::update"
    /\ log[2].arg.name = <<"b">>

====
